---------------------------- MODULE Spec2Model ----------------------------
(***************************************************************************)
(* A model of the rendezvous (barrier) Service of murmesh-barrier and its   *)
(* client and server procedures, of the framed TCP link driver of          *)
(* neat-tokio, of the inbound loop of larlis-udp and of the lifts of       *)
(* neat-core.                                                              *)
(*                                                                         *)
(* Handlers the code only calls (egress, finished, the downstream state,   *)
(* the disconnect notifier) are modelled by the log of the messages they   *)
(* were updated with.                                                      *)
(***************************************************************************)
EXTENDS Naturals, Integers, Sequences, FiniteSets, TLC

(***************************************************************************)
(* Bounds of the model.                                                    *)
(***************************************************************************)
MaxCount == 3
MaxSend == 2
MaxPush == 2
MaxLift == 2
MaxDatagrams == 2
MaxClients == 2

\* let mut buf = vec![0; 65536]
BufSize == 65536

\* The participants' addresses (std::net::SocketAddr: an IP and a port) and
\* the values of the contributed message type M.
Ips == {"10.0.0.1", "10.0.0.2"}
Ports == {7001, 7002}
SocketAddr == Ips \X Ports
Msgs == {1, 5}

\* The messages (Vec<u8>) sent over a link in either direction.  The third
\* one holds the bytes of a frame of its own.
Payloads == {<<>>, <<7>>, <<0, 0, 0, 0>>}

\* The messages pushed into a link's outbound mailbox.
Outgoing == {<<>>, <<7>>}

\* The addresses of the peers messages and datagrams come from.
Peers == {<<"10.0.0.1", 7001>>, <<"10.0.0.2", 7002>>}

\* Lengths a peer may announce in a frame's prefix without sending the
\* payload: a small one, the size of buf, and two beyond it.
AnnouncedLens == {1, 65536, 65537, 2147483647}

VARIABLES
    \* ---- murmesh-barrier Service ----
    count,          \* Service.count
    accumulated,    \* Service.accumulated : HashMap<SocketAddr, M>
    egress,         \* log of the messages Service.egress was updated with
    finished,       \* number of times Service.finished was updated
    fatal,          \* "none", or the assertion that panicked in update
    calls,          \* history: number of calls of update
    input,          \* history: the message of the latest call of update
    first,          \* history: each participant's first contribution
    handled,        \* history: the calls of egress.update and finished.update,
                    \* in the order update made them
    pool,           \* environment: the contributions the participants may send
    runs            \* history: the earlier service that completed, with its
                    \* map, the aggregate it broadcast and its last input

VARIABLES
    \* ---- neat-tokio GeneralConnection::start ----
    remote_addr,    \* GeneralConnection.remote_addr
    stream_rx,      \* stream: the bytes the peer wrote that are not yet read
    stream_tx,      \* stream: the bytes the driver wrote
    stream_status,  \* stream: "open", "eof" (peer closed) or "reset"
    drive,          \* the outbound mailbox: messages pushed and not yet received
    drive_closed,   \* every sender of the mailbox is dropped
    local_close,    \* local_close
    pc,             \* where start is suspended, or how it ended
    read_u32,       \* the bytes the pending read_u32 future has read so far
    len,            \* len
    buf,            \* the bytes read_exact has read into buf[..len] so far
    out_message,    \* message, in the outbound branch
    state,          \* log of the messages the downstream state was updated with
    disconnected,   \* log of the messages the disconnect notifier was updated with
    sent,           \* history: the messages the peer sent
    pushed,         \* history: the messages pushed into the mailbox
    failed          \* history: the stream operation that failed, or "none"

serviceVars ==
    <<count, accumulated, egress, finished, fatal, calls, input, first,
      handled, pool, runs>>

linkVars ==
    <<remote_addr, stream_rx, stream_tx, stream_status, drive, drive_closed,
      local_close, pc, read_u32, len, buf, out_message, state, disconnected,
      sent,
      pushed, failed>>

VARIABLES
    \* ---- neat-core message lifts ----
    inner_fn,       \* the inner FunctionalState S: which function it computes
    inner_calls,    \* the inner state: log of the messages S was updated with
    lift,           \* the Lift whose update ran last, or "none"
    lift_message,   \* its message
    lift_out        \* its output

liftVars == <<inner_fn, inner_calls, lift, lift_message, lift_out>>

VARIABLES
    \* ---- larlis-udp In::start ----
    udp_socket,     \* socket: the datagrams that arrived and are not yet received
    udp_buf,        \* buf, up to the last byte ever written (zeros beyond it)
    udp_len,        \* len
    udp_remote,     \* remote
    udp_pc,         \* "recv" (awaiting recv_from), "update" (in state.update)
                    \* or "panicked"
    udp_state,      \* log of the messages the downstream state was updated with
    udp_arrived     \* history: the datagrams that arrived at the socket

udpVars ==
    <<udp_socket, udp_buf, udp_len, udp_remote, udp_pc, udp_state,
      udp_arrived>>

VARIABLES
    \* ---- murmesh-barrier use_barrier and provide_barrier ----
    srv_pc,          \* provide_barrier: the await it is suspended in ("accept",
                     \* "finished_recv", "join", "app_await"), "returned" or
                     \* "panicked"; "none" when it is not run
    srv_connections, \* connections: the remote addresses of the links
                     \* accepted, in the order accepted
    srv_dispatch,    \* dispatch: the addresses with a registered handler
    srv_joined,      \* the number of connections the join loop has awaited
    backlog,         \* listener: links established and not yet accepted
    app_wire,        \* app_wire: the messages pushed and not yet pulled
    app_pc,          \* the app task: "unspawned", "running", "ended", "panicked"
    finished_wire,   \* finished: the signals pushed and not yet pulled
    cl_pc,           \* use_barrier of each client: "connect", "recv", "returned"
    cl_out,          \* each client link's outbound mailbox
    c2s,             \* each link's stream from the client to the server
    srv_out,         \* each server link's outbound mailbox
    s2c,             \* each link's stream from the server to the client
    cl_message,      \* each client's message wire
    cl_result,       \* what use_barrier returned to each client
    cl_link,         \* each client's driver task: "none", "running", "aborted"
    srv_link         \* each server driver task: "none", "running", "ended"

srvVars ==
    <<srv_pc, srv_connections, srv_dispatch, srv_joined, backlog, app_wire,
      app_pc, finished_wire>>

clVars == <<cl_pc, cl_out, cl_message, cl_result, cl_link>>

streamVars == <<c2s, srv_out, s2c, srv_link>>

barrierVars == <<srvVars, clVars, streamVars>>

\* The variables of the parts modelled beside the Service and the link.
restVars == <<liftVars, udpVars, barrierVars>>

vars == <<serviceVars, linkVars, restVars>>

\* No lift is applied.
LiftIdle ==
    /\ inner_fn = "identity"
    /\ inner_calls = <<>>
    /\ lift = "none"
    /\ lift_message = <<>>
    /\ lift_out = <<>>

\* In::start before its loop: let mut buf = vec![0; 65536]
UdpNew ==
    /\ udp_socket = <<>>
    /\ udp_buf = <<>>
    /\ udp_len = 0
    /\ udp_remote = <<>>
    /\ udp_pc = "recv"
    /\ udp_state = <<>>
    /\ udp_arrived = <<>>

\* No rendezvous is run.
BarrierIdle ==
    /\ srv_pc = "none"
    /\ srv_connections = <<>>
    /\ srv_dispatch = {}
    /\ srv_joined = 0
    /\ backlog = <<>>
    /\ app_wire = <<>>
    /\ app_pc = "unspawned"
    /\ finished_wire = 0
    /\ cl_pc = <<>>
    /\ cl_out = <<>>
    /\ c2s = <<>>
    /\ srv_out = <<>>
    /\ s2c = <<>>
    /\ cl_message = <<>>
    /\ cl_result = <<>>
    /\ cl_link = <<>>
    /\ srv_link = <<>>

RestIdle == LiftIdle /\ UdpNew /\ BarrierIdle

(***************************************************************************)
(* murmesh-barrier: Service                                                *)
(***************************************************************************)

\* HashMap::len
Size(map) == Cardinality(DOMAIN map)

\* SocketAddr::ip
Ip(addr) == addr[1]

\* HashMap::insert: the map afterwards (an existing key's value is replaced).
Insert(map, key, value) ==
    [k \in DOMAIN map \cup {key} |-> IF k = key THEN value ELSE map[k]]

\* Mutant: the previous value is dropped.
InsertPrevDropped(map, key) == <<>>

\* HashMap::insert: the returned previous value, an Option as a sequence of
\* length at most one.
InsertPrev(map, key) ==
    IF key \in DOMAIN map THEN <<map[key]>> ELSE <<>>

\* The orders HashMap::iter and HashMap::keys may walk a map in: the order is
\* arbitrary, and the same for both walks of one unmodified map.
IterOrders(map) ==
    {o \in [1..Size(map) -> DOMAIN map] :
        \A i, j \in 1..Size(map) : o[i] = o[j] => i = j}

\* Mutant: the bound is off by one.
BelowCountOffByOne(map, n) == Size(map) <= n

\* Mutant: the first assertion is left out.
BelowCountUnchecked(map, n) == TRUE

\* assert!(self.accumulated.len() < self.count)
BelowCount(map, n) == Size(map) < n

\* Mutant: the assertion is left out.
PrevIsNoneUnchecked(prev) == TRUE

\* assert!(prev.is_none())
PrevIsNone(prev) == prev = <<>>

\* Mutants: the quorum is taken as reached one contribution early.
QuorumReachedEarly(map, n) == Size(map) + 1 >= n

QuorumReachedOneShort(map, n) == Size(map) + 1 = n

\* if self.accumulated.len() == self.count
QuorumReached(map, n) == Size(map) = n

\* Mutant: messages and IPs are taken from two walks in opposite orders.
AggregateMisaligned(map, order) ==
    [i \in 1..Len(order) |->
        <<map[order[i]], Ip(order[Len(order) + 1 - i])>>]

\* Vec::from_iter(accumulated.iter().map(|(addr, message)| (message.clone(), addr.ip())))
Aggregate(map, order) ==
    [i \in 1..Len(order) |-> <<map[order[i]], Ip(order[i])>>]

\* Mutant: the last participant is left out of the broadcast.
BroadcastButLast(order, message) ==
    [i \in 1..(Len(order) - 1) |-> <<order[i], message>>]

\* for &remote in accumulated.keys() { egress.update((remote, message.clone())) }
Broadcast(order, message) ==
    [i \in 1..Len(order) |-> <<order[i], message>>]

\* self.finished.update(())
Finish(n) == n + 1

\* Mutant: finished is signalled before the last delivery to egress.
HandlerCallsFinishedEarly(order) ==
    [i \in 1..(Len(order) - 1) |-> <<"egress", order[i]>>]
        \o << <<"finished">>, <<"egress", order[Len(order)]>> >>

\* The handler calls of a quorum-reaching update, in program order: the loop
\* over accumulated.keys() updating egress, then finished.update(()).
HandlerCalls(order) ==
    [i \in 1..Len(order) |-> <<"egress", order[i]>>] \o << <<"finished">> >>

\* Service::new
ServiceNew(n) ==
    /\ count' = n
    /\ accumulated' = <<>>
    /\ egress' = <<>>
    /\ finished' = 0
    /\ fatal' = "none"
    /\ calls' = 0
    /\ input' = <<>>
    /\ first' = <<>>
    /\ handled' = <<>>

ServiceInit ==
    /\ count \in 0..MaxCount
    /\ accumulated = <<>>
    /\ egress = <<>>
    /\ finished = 0
    /\ fatal = "none"
    /\ calls = 0
    /\ input = <<>>
    /\ first = <<>>
    /\ handled = <<>>
    /\ pool = SocketAddr \X Msgs
    /\ runs = {}

\* The sets of contributions in which n participants contribute one message each.
Contributions(n) ==
    {c \in SUBSET (SocketAddr \X Msgs) :
        /\ Cardinality(c) = n
        /\ \A x, y \in c : x[1] = y[1] => x = y}

\* A service no participant contributes to.
ServiceNoContributions ==
    /\ count = 0
    /\ accumulated = <<>>
    /\ egress = <<>>
    /\ finished = 0
    /\ fatal = "none"
    /\ calls = 0
    /\ input = <<>>
    /\ first = <<>>
    /\ handled = <<>>
    /\ pool = {}
    /\ runs = {}

\* A rendezvous whose participants are fixed: count of them, one contribution
\* each, arriving in any order (and possibly more than once).
RunsInit ==
    /\ count \in 1..MaxCount
    /\ pool \in Contributions(count)
    /\ accumulated = <<>>
    /\ egress = <<>>
    /\ finished = 0
    /\ fatal = "none"
    /\ calls = 0
    /\ input = <<>>
    /\ first = <<>>
    /\ handled = <<>>
    /\ runs = {}

\* Service::update.  A failed assertion panics: the caller unwinds and the
\* service is not updated again.
Update(remote, message) ==
    /\ fatal = "none"
    /\ calls' = calls + 1
    /\ input' = <<remote, message>>
    /\ first' = IF remote \in DOMAIN first THEN first
                ELSE Insert(first, remote, message)
    /\ UNCHANGED <<count, pool, runs>>
    /\ IF ~BelowCount(accumulated, count)
       THEN /\ fatal' = "len_below_count"
            /\ UNCHANGED <<accumulated, egress, finished, handled>>
       ELSE LET prev == InsertPrev(accumulated, remote)
                map == Insert(accumulated, remote, message)
            IN  /\ accumulated' = map
                /\ IF ~PrevIsNone(prev)
                   THEN /\ fatal' = "prev_is_none"
                        /\ UNCHANGED <<egress, finished, handled>>
                   ELSE /\ fatal' = fatal
                        /\ IF QuorumReached(map, count)
                           THEN \E order \in IterOrders(map) :
                                   /\ egress' = egress \o
                                         Broadcast(order, Aggregate(map, order))
                                   /\ finished' = Finish(finished)
                                   /\ handled' = handled \o
                                         HandlerCalls(order)
                           ELSE UNCHANGED <<egress, finished, handled>>

\* A second construction of a Service (Service::new), the earlier one dropped.
\* If the earlier one completed, its map, its aggregate and its last input are
\* remembered in runs, and it is the one later services are compared with.
New(n) ==
    /\ runs = {}
    /\ runs' = IF egress # <<>>
                THEN {[accumulated |-> accumulated, aggregate |-> egress[1][2],
                       calls |-> calls, input |-> input]}
                ELSE runs
    /\ ServiceNew(n)
    /\ UNCHANGED pool

UpdateStep == (\E m \in pool : Update(m[1], m[2])) /\ UNCHANGED <<linkVars, restVars>>

\* The rendezvous is run again with the same quorum.
NewStep == New(count) /\ UNCHANGED <<linkVars, restVars>>


(***************************************************************************)
(* neat-tokio: GeneralConnection::start                                    *)
(*                                                                         *)
(* The driver's steps are the stretches of start between two suspension    *)
(* points.  The bytes the peer wrote arrive in pieces of any size: a poll  *)
(* of a read takes as many of the unread bytes as have arrived, which may  *)
(* be any number of them.                                                  *)
(***************************************************************************)

\* The shorter of two lengths.
Min(a, b) == IF a <= b THEN a ELSE b

\* write_u32(n as _): the low 32 bits of n, as four bytes in network byte
\* order.
U32Bytes(n) ==
    << (n \div 16777216) % 256, (n \div 65536) % 256, (n \div 256) % 256,
       n % 256 >>

\* read_u32: the u32 four bytes in network byte order stand for.
U32Value(bytes) ==
    bytes[1] * 16777216 + bytes[2] * 65536 + bytes[3] * 256 + bytes[4]

\* The bytes the outbound branch writes for a message: write_u32 of its
\* length, then write_all of the message.
Frame(m) == U32Bytes(Len(m)) \o m

\* Disconnected(self.remote_addr)
Disconnected(addr) == addr

\* Mutant: the loop is left by return, past the notifier.
NotifySkipped(log, addr) == log

\* disconnected.update(Disconnected(self.remote_addr))
Notify(log, addr) == Append(log, Disconnected(addr))

\* state.update((self.remote_addr, &buf[..len as _]))
Deliver(log, addr, bytes) == Append(log, <<addr, bytes>>)

\* A read of the stream fails: the connection was reset, or the peer closed
\* it and every byte it wrote has been read.
ReadFails ==
    \/ stream_status = "reset"
    \/ stream_status = "eof" /\ stream_rx = <<>>

\* A write of the stream may fail once the peer has closed or reset it.
WriteMayFail == stream_status # "open"

\* GeneralConnection::new, and the locals of start before its loop.
LinkNew(addr) ==
    /\ remote_addr = addr
    /\ stream_rx = <<>>
    /\ stream_tx = <<>>
    /\ stream_status = "open"
    /\ drive = <<>>
    /\ drive_closed = FALSE
    /\ local_close = FALSE
    /\ pc = "select"
    /\ read_u32 = <<>>
    /\ len = 0
    /\ buf = <<>>
    /\ out_message = <<>>
    /\ state = <<>>
    /\ disconnected = <<>>
    /\ sent = <<>>
    /\ pushed = <<>>
    /\ failed = "none"

\* A link to the peer at 10.0.0.2:7002.
LinkInit == LinkNew(<<"10.0.0.2", 7002>>)

\* A link nothing is sent over: its driver is not looked at.
LinkIdle == LinkNew(<<"10.0.0.1", 7001>>)

\* break, then disconnected.update(Disconnected(self.remote_addr)) and return:
\* no suspension point lies between them.
Break(op) ==
    /\ failed' = op
    /\ disconnected' = Notify(disconnected, remote_addr)
    /\ pc' = "done"

envVars == <<remote_addr, stream_status, drive_closed, sent, pushed>>

\* select!: the read_u32 future is polled and reads k more bytes of the
\* length.  With the fourth byte the inbound branch is taken (the recv future
\* is dropped) and buf[..len] is sliced, which panics for len > buf.len().
\* With fewer the future stays pending and keeps the bytes it has read.
SelectReadU32(k) ==
    /\ pc = "select"
    /\ k \in 1..Min(4 - Len(read_u32), Len(stream_rx))
    /\ stream_status # "reset"
    /\ stream_rx' = SubSeq(stream_rx, k + 1, Len(stream_rx))
    /\ LET bytes == read_u32 \o SubSeq(stream_rx, 1, k)
       IN  IF Len(bytes) < 4
           THEN /\ read_u32' = bytes
                /\ UNCHANGED <<pc, len, buf>>
           ELSE /\ read_u32' = <<>>
                /\ len' = U32Value(bytes)
                /\ buf' = <<>>
                /\ pc' = IF U32Value(bytes) > BufSize THEN "panicked"
                         ELSE "read_exact"
    /\ UNCHANGED <<serviceVars, restVars, envVars, stream_tx, drive, local_close, out_message, state,
                   disconnected, failed>>

\* select!: read_u32 fails (let Ok(len) = len else { break }).
SelectReadU32Err ==
    /\ pc = "select"
    /\ ReadFails
    /\ read_u32' = <<>>
    /\ Break("read_u32")
    /\ UNCHANGED <<serviceVars, restVars, envVars, stream_rx, stream_tx, drive, local_close, len, buf,
                   out_message, state>>

\* select!: drive.recv() yields a message, if !local_close.  The outbound
\* branch is taken and the read_u32 future is dropped with the bytes it read.
SelectRecvSome ==
    /\ pc = "select"
    /\ ~local_close
    /\ drive # <<>>
    /\ out_message' = Head(drive)
    /\ drive' = Tail(drive)
    /\ read_u32' = <<>>
    /\ pc' = "write_u32"
    /\ UNCHANGED <<serviceVars, restVars, envVars, stream_rx, stream_tx, local_close, len, buf, state,
                   disconnected, failed>>

\* select!: drive.recv() yields None, if !local_close: local_close = true and
\* continue.  The read_u32 future is dropped with the bytes it read.
SelectRecvNone ==
    /\ pc = "select"
    /\ ~local_close
    /\ drive = <<>>
    /\ drive_closed
    /\ local_close' = TRUE
    /\ read_u32' = <<>>
    /\ UNCHANGED <<serviceVars, restVars, envVars, stream_rx, stream_tx, drive, pc, len, buf, out_message,
                   state, disconnected, failed>>

\* read_exact(&mut buf[..len]) reads k more bytes; with the last one (at once
\* for len = 0) state.update((remote_addr, &buf[..len])) and the next select!.
ReadExact(k) ==
    /\ pc = "read_exact"
    /\ k \in 0..Min(len - Len(buf), Len(stream_rx))
    /\ k >= 1 \/ len = Len(buf)
    /\ k >= 1 => stream_status # "reset"
    /\ stream_rx' = SubSeq(stream_rx, k + 1, Len(stream_rx))
    /\ LET bytes == buf \o SubSeq(stream_rx, 1, k)
       IN  IF Len(bytes) < len
           THEN /\ buf' = bytes
                /\ UNCHANGED <<pc, state>>
           ELSE /\ buf' = <<>>
                /\ state' = Deliver(state, remote_addr, bytes)
                /\ pc' = "select"
    /\ UNCHANGED <<serviceVars, restVars, envVars, stream_tx, drive, local_close, read_u32, len,
                   out_message, disconnected, failed>>

\* read_exact fails: break.
ReadExactErr ==
    /\ pc = "read_exact"
    /\ Len(buf) < len
    /\ ReadFails
    /\ Break("read_exact")
    /\ UNCHANGED <<serviceVars, restVars, envVars, stream_rx, stream_tx, drive, local_close, read_u32,
                   len, buf, out_message, state>>

\* write_u32(message.len() as _)
WriteU32 ==
    /\ pc = "write_u32"
    /\ stream_tx' = stream_tx \o U32Bytes(Len(out_message))
    /\ pc' = "write_all"
    /\ UNCHANGED <<serviceVars, restVars, envVars, stream_rx, drive, local_close, read_u32, len, buf,
                   out_message, state, disconnected, failed>>

\* write_all(&message)
WriteAll ==
    /\ pc = "write_all"
    /\ stream_tx' = stream_tx \o out_message
    /\ pc' = "flush"
    /\ UNCHANGED <<serviceVars, restVars, envVars, stream_rx, drive, local_close, read_u32, len, buf,
                   out_message, state, disconnected, failed>>

\* flush(), then the next select!
Flush ==
    /\ pc = "flush"
    /\ pc' = "select"
    /\ UNCHANGED <<serviceVars, restVars, envVars, stream_rx, stream_tx, drive, local_close, read_u32,
                   len, buf, out_message, state, disconnected, failed>>

\* write_u32, write_all or flush fails: break.
WriteErr ==
    /\ pc \in {"write_u32", "write_all", "flush"}
    /\ WriteMayFail
    /\ Break(pc)
    /\ UNCHANGED <<serviceVars, restVars, envVars, stream_rx, stream_tx, drive, local_close, read_u32,
                   len, buf, out_message, state>>

driverVars ==
    <<stream_tx, local_close, pc, read_u32, len, buf, out_message, state,
      disconnected, failed>>

\* start has not returned and has not panicked.
Running == pc \notin {"done", "panicked"}

\* The peer's driver writes the frame of a message.
PeerSend(m) ==
    /\ Running
    /\ stream_status = "open"
    /\ Len(sent) < MaxSend
    /\ stream_rx' = stream_rx \o Frame(m)
    /\ sent' = Append(sent, m)
    /\ UNCHANGED <<serviceVars, restVars, remote_addr, stream_status, drive, drive_closed, pushed,
                   driverVars>>

\* The peer closes the connection, or the connection is reset.
PeerEnds(how) ==
    /\ Running
    /\ stream_status = "open"
    /\ stream_status' = how
    /\ UNCHANGED <<serviceVars, restVars, remote_addr, stream_rx, drive, drive_closed, sent, pushed,
                   driverVars>>

\* A message is pushed into the link's outbound mailbox.
Push(m) ==
    /\ Running
    /\ ~drive_closed
    /\ Len(pushed) < MaxPush
    /\ drive' = Append(drive, m)
    /\ pushed' = Append(pushed, m)
    /\ UNCHANGED <<serviceVars, restVars, remote_addr, stream_rx, stream_status, drive_closed, sent,
                   driverVars>>

\* The last sender of the mailbox is dropped.
DropSenders ==
    /\ Running
    /\ ~drive_closed
    /\ drive_closed' = TRUE
    /\ UNCHANGED <<serviceVars, restVars, remote_addr, stream_rx, stream_status, drive, sent, pushed,
                   driverVars>>

\* The peer writes the length prefix of a frame of n bytes and closes the
\* connection before it has written any of the payload.
PeerAnnounce(n) ==
    /\ Running
    /\ stream_status = "open"
    /\ stream_rx' = stream_rx \o U32Bytes(n)
    /\ stream_status' = "eof"
    /\ UNCHANGED <<serviceVars, restVars, remote_addr, drive, drive_closed, sent, pushed,
                   driverVars>>

NextLink ==
    \/ \E k \in 1..4 : SelectReadU32(k)
    \/ SelectReadU32Err
    \/ SelectRecvSome
    \/ SelectRecvNone
    \/ \E k \in 0..Len(stream_rx) : ReadExact(k)
    \/ ReadExactErr
    \/ WriteU32
    \/ WriteAll
    \/ Flush
    \/ WriteErr
    \/ \E m \in Payloads : PeerSend(m)
    \/ \E how \in {"eof", "reset"} : PeerEnds(how)
    \/ \E m \in Outgoing : Push(m)
    \/ DropSenders

\* A link driver that has just started, and no service.
InitLink ==
    /\ ServiceNoContributions
    /\ LinkInit
    /\ RestIdle

\* One link driver over its life.
SpecLink == InitLink /\ [][NextLink]_vars

\* One link driver over its life, with a peer that may also announce a frame
\* it does not send.
NextLinkRaw ==
    \/ NextLink
    \/ \E n \in AnnouncedLens : PeerAnnounce(n)

SpecLinkRaw == InitLink /\ [][NextLinkRaw]_vars

\* A service that has just been constructed, and a link that is not driven.
Init ==
    /\ ServiceInit
    /\ LinkIdle
    /\ RestIdle

\* One Service over its life.
NextService == UpdateStep

SpecService == Init /\ [][NextService]_vars

\* A rendezvous of fixed participants, and a link that is not driven.
InitRuns ==
    /\ RunsInit
    /\ LinkIdle
    /\ RestIdle

\* Services constructed one after another.
NextRuns == UpdateStep \/ NewStep

SpecRuns == InitRuns /\ [][NextRuns]_vars

(***************************************************************************)
(* neat-core: the Lift implementations of message.rs                       *)
(*                                                                         *)
(* A wrapped message is a tuple: <<"None">> and <<"Some", m>> for          *)
(* Option<M>; <<"Set", m>>, <<"Reset", m>> and <<"Unset", m>> for          *)
(* Timeout<M>; <<addr, m>> for Transport<M>; <<"To", dest, m>> and         *)
(* <<"ToAll", m>> for Route<K, M>.  The inner FunctionalState is its log   *)
(* of calls; the result of an update is the new log and the output.        *)
(***************************************************************************)

\* The inner states lifted: one whose update returns its message, and one
\* whose output depends on the message and on the state.
InnerFns == {"identity", "offset"}

\* The destination keys K of a Route.
Keys == Ips

Options == {<<"None">>} \cup {<<"Some", m>> : m \in Msgs}
Timeouts == {<<tag, m>> : tag \in {"Set", "Reset", "Unset"}, m \in Msgs}
Transports == {<<addr, m>> : addr \in Peers, m \in Msgs}
Routes ==
    {<<"To", dest, m>> : dest \in Keys, m \in Msgs}
        \cup {<<"ToAll", m>> : m \in Msgs}

\* The messages each Lift is implemented for.
LiftMessages(l) ==
    CASE l = "OptionLift" -> Options
      [] l = "TimeoutLift" -> Timeouts
      [] l = "TransportLift" -> Transports
      [] l = "RouteLift" -> Routes

Lifts == {"OptionLift", "TimeoutLift", "TransportLift", "RouteLift"}

\* state.update(message) of the inner FunctionalState
InnerUpdate(fn, inner, message) ==
    [calls |-> Append(inner, message),
     out |-> IF fn = "identity" THEN message
             ELSE message + Len(inner) + 1]

\* Mutant: an absent message is given to the inner state as a default one.
OptionLiftNoneAsDefault(fn, inner, message) ==
    LET r == InnerUpdate(fn, inner,
                         IF message[1] = "None" THEN 0 ELSE message[2])
    IN  [calls |-> r.calls,
         out |-> IF message[1] = "None" THEN <<"None">>
                 ELSE <<"Some", r.out>>]

\* OptionLift: message.map(|message| state.update(message))
OptionLift(fn, inner, message) ==
    IF message[1] = "None" THEN [calls |-> inner, out |-> <<"None">>]
    ELSE LET r == InnerUpdate(fn, inner, message[2])
         IN  [calls |-> r.calls, out |-> <<"Some", r.out>>]

\* Mutant: Reset is rebuilt as Set.
TimeoutLiftResetAsSet(fn, inner, message) ==
    LET r == InnerUpdate(fn, inner, message[2])
    IN  [calls |-> r.calls, out |-> <<"Set", r.out>>]

\* TimeoutLift: each variant is rebuilt around state.update(message).
TimeoutLift(fn, inner, message) ==
    LET r == InnerUpdate(fn, inner, message[2])
    IN  CASE message[1] = "Set" -> [calls |-> r.calls, out |-> <<"Set", r.out>>]
          [] message[1] = "Reset" ->
                [calls |-> r.calls, out |-> <<"Reset", r.out>>]
          [] message[1] = "Unset" ->
                [calls |-> r.calls, out |-> <<"Unset", r.out>>]

\* TransportLift: let (addr, message) = message; (addr, state.update(message))
TransportLift(fn, inner, message) ==
    LET addr == message[1]
        r == InnerUpdate(fn, inner, message[2])
    IN  [calls |-> r.calls, out |-> <<addr, r.out>>]

\* RouteLift: To(dest, message) => To(dest, state.update(message));
\* ToAll(message) => ToAll(state.update(message))
RouteLift(fn, inner, message) ==
    CASE message[1] = "To" ->
            LET dest == message[2]
                r == InnerUpdate(fn, inner, message[3])
            IN  [calls |-> r.calls, out |-> <<"To", dest, r.out>>]
      [] message[1] = "ToAll" ->
            LET r == InnerUpdate(fn, inner, message[2])
            IN  [calls |-> r.calls, out |-> <<"ToAll", r.out>>]

\* Lift::update of the implementation l
LiftApply(l, fn, inner, message) ==
    CASE l = "OptionLift" -> OptionLift(fn, inner, message)
      [] l = "TimeoutLift" -> TimeoutLift(fn, inner, message)
      [] l = "TransportLift" -> TransportLift(fn, inner, message)
      [] l = "RouteLift" -> RouteLift(fn, inner, message)

\* An inner state that has not been updated, of either kind.
LiftInit ==
    /\ inner_fn \in InnerFns
    /\ inner_calls = <<>>
    /\ lift = "none"
    /\ lift_message = <<>>
    /\ lift_out = <<>>

\* l.update(&mut state, message)
LiftUpdate(l, message) ==
    /\ Len(inner_calls) < MaxLift
    /\ LET r == LiftApply(l, inner_fn, inner_calls, message)
       IN  /\ inner_calls' = r.calls
           /\ lift_out' = r.out
    /\ lift' = l
    /\ lift_message' = message
    /\ UNCHANGED <<serviceVars, linkVars, udpVars, barrierVars, inner_fn>>

InitLift ==
    /\ ServiceNoContributions
    /\ LinkIdle
    /\ LiftInit
    /\ UdpNew
    /\ BarrierIdle

NextLift == \E l \in Lifts : \E message \in LiftMessages(l) : LiftUpdate(l, message)

\* Lifts applied one after another to one inner state.
SpecLift == InitLift /\ [][NextLift]_vars

(***************************************************************************)
(* larlis-udp: In::start                                                   *)
(*                                                                         *)
(* recv_from is the loop's only suspension point; state.update is called   *)
(* in the same poll that recv_from returned in.  Datagrams arrive at the   *)
(* socket at any time.                                                     *)
(***************************************************************************)

\* The payloads of the datagrams sent to the socket.
Datagrams == {<<>>, <<104>>, <<104, 105>>}

\* recv_from(&mut buf) writes the datagram over the start of buf (as much of
\* it as buf holds) and leaves the bytes after it as they were.
RecvInto(b, payload) ==
    LET n == Min(Len(payload), BufSize)
    IN  SubSeq(payload, 1, n) \o SubSeq(b, n + 1, Len(b))

\* Mutant: the whole of what was written in buf is passed on.
SliceAll(b, n) == b

\* &buf[..len]
Slice(b, n) == SubSeq(b, 1, n)

\* Where the loop is once recv_from has returned: in state.update.
AfterRecv == "update"

\* let (len, remote) = self.socket.recv_from(&mut buf).await.unwrap()
UdpRecv ==
    /\ udp_pc = "recv"
    /\ udp_socket # <<>>
    /\ LET remote == Head(udp_socket)[1]
           payload == Head(udp_socket)[2]
       IN  /\ udp_buf' = RecvInto(udp_buf, payload)
           /\ udp_len' = Min(Len(payload), BufSize)
           /\ udp_remote' = remote
    /\ udp_socket' = Tail(udp_socket)
    /\ udp_pc' = AfterRecv
    /\ UNCHANGED <<serviceVars, linkVars, liftVars, barrierVars, udp_state, udp_arrived>>

\* recv_from fails and unwrap panics.
UdpRecvErr ==
    /\ udp_pc = "recv"
    /\ udp_pc' = "panicked"
    /\ UNCHANGED <<serviceVars, linkVars, liftVars, barrierVars, udp_socket, udp_buf, udp_len,
                   udp_remote, udp_state, udp_arrived>>

\* self.state.update((remote, &buf[..len])), then the next recv_from
UdpUpdate ==
    /\ udp_pc = "update"
    /\ udp_state' = Append(udp_state, <<udp_remote, Slice(udp_buf, udp_len)>>)
    /\ udp_pc' = "recv"
    /\ UNCHANGED <<serviceVars, linkVars, liftVars, barrierVars, udp_socket, udp_buf, udp_len,
                   udp_remote, udp_arrived>>

\* A datagram from remote arrives at the socket.
UdpArrive(remote, payload) ==
    /\ Len(udp_arrived) < MaxDatagrams
    /\ udp_socket' = Append(udp_socket, <<remote, payload>>)
    /\ udp_arrived' = Append(udp_arrived, <<remote, payload>>)
    /\ UNCHANGED <<serviceVars, linkVars, liftVars, barrierVars, udp_buf, udp_len, udp_remote,
                   udp_pc, udp_state>>

InitUdp ==
    /\ ServiceNoContributions
    /\ LinkIdle
    /\ LiftIdle
    /\ UdpNew
    /\ BarrierIdle

NextUdp ==
    \/ UdpRecv
    \/ UdpRecvErr
    \/ UdpUpdate
    \/ \E remote \in Peers : \E payload \in Datagrams : UdpArrive(remote, payload)

\* One inbound loop of a datagram port over its life.
SpecUdp == InitUdp /\ [][NextUdp]_vars

(***************************************************************************)
(* murmesh-barrier: use_barrier and provide_barrier                        *)
(*                                                                         *)
(* One server and the clients of one rendezvous.  A step of a procedure    *)
(* is the stretch between two awaits.  Wire, Drive, Dispatch, the codec    *)
(* and murmesh_tcp are used by these procedures and defined elsewhere:     *)
(* a wire is a FIFO queue whose pull yields end-of-stream once its push    *)
(* halves are dropped, the router fails on an address without an entry,    *)
(* and a link carries whole messages in order in each direction, its       *)
(* driver moving them between the mailbox, the stream and the downstream   *)
(* handler.                                                                *)
(***************************************************************************)

\* The addresses the clients bind (addr of use_barrier), in a fixed order.
ClientAddrs ==
    << <<"10.0.0.1", 7001>>, <<"10.0.0.1", 7002>>, <<"10.0.0.2", 7001>>,
       <<"10.0.0.2", 7002>> >>

\* The payload (payload of use_barrier) each of them contributes.
ClientPayloads == <<1, 5, 1, 5>>

\* The contributions of a rendezvous of n clients.
Participants(n) == {<<ClientAddrs[i], ClientPayloads[i]>> : i \in 1..n}

\* The clients of the rendezvous and the payload each contributes.
Clients == {m[1] : m \in pool}
Payload(c) == (CHOOSE m \in pool : m[1] = c)[2]

\* ser() and de(): the codec's encoding of a message and its inverse.
Ser(m) == <<"bincode", m>>
De(bytes) == bytes[2]

\* Mutant: the link's outbound handler is not registered.
RegisteredNot(dispatch, addr) == dispatch

\* dispatch.insert_state(connection.remote_addr, connection.out_state())
Registered(dispatch, addr) == dispatch \cup {addr}

\* The egress of the Service, transport::Lift(ser()) installed on dispatch,
\* updated with each delivery in turn: the encoded message is pushed into the
\* mailbox of the link registered for the address; an address without an
\* entry is fatal and ends the updates.
RECURSIVE RouteAll(_, _, _)
RouteAll(out, deliveries, dispatch) ==
    IF deliveries = <<>> THEN [out |-> out, ok |-> TRUE]
    ELSE LET remote == Head(deliveries)[1]
             message == Head(deliveries)[2]
         IN  IF remote \notin dispatch THEN [out |-> out, ok |-> FALSE]
             ELSE RouteAll([out EXCEPT ![remote] = Append(@, Ser(message))],
                           Tail(deliveries), dispatch)

otherVars == <<linkVars, liftVars, udpVars>>

\* provide_barrier up to its first await, and no client started.
BarrierInit ==
    /\ count \in 0..MaxClients
    /\ pool = Participants(count)
    /\ accumulated = <<>>
    /\ egress = <<>>
    /\ finished = 0
    /\ fatal = "none"
    /\ calls = 0
    /\ input = <<>>
    /\ first = <<>>
    /\ handled = <<>>
    /\ runs = {}
    /\ srv_pc = IF count = 0 THEN "finished_recv" ELSE "accept"
    /\ srv_connections = <<>>
    /\ srv_dispatch = {}
    /\ srv_joined = 0
    /\ backlog = <<>>
    /\ app_wire = <<>>
    /\ app_pc = IF count = 0 THEN "running" ELSE "unspawned"
    /\ finished_wire = 0
    /\ cl_pc = [c \in Clients |-> "connect"]
    /\ cl_out = [c \in Clients |-> <<>>]
    /\ c2s = [c \in Clients |-> <<>>]
    /\ srv_out = [c \in Clients |-> <<>>]
    /\ s2c = [c \in Clients |-> <<>>]
    /\ cl_message = [c \in Clients |-> <<>>]
    /\ cl_result = [c \in Clients |-> <<>>]
    /\ cl_link = [c \in Clients |-> "none"]
    /\ srv_link = [c \in Clients |-> "none"]

\* Mutant: the payload is sent twice.
ContributionTwice(c) == <<Ser(Payload(c)), Ser(Payload(c))>>

\* The messages use_barrier pushes into its link's mailbox: the one update of
\* transport::Lift(ser()) installed on dispatch with (service, payload).
Contribution(c) == <<Ser(Payload(c))>>

\* Mutant: provide_barrier returns once the finished signal is received.
AfterJoinReturns(j) == "returned"

\* use_barrier from the completion of connect to recv().await: the link's
\* outbound handler is registered under the service's address, the driver is
\* spawned, and the payload is encoded and routed to the service.
\* The router holds the one entry the payload is routed to.
ClientConnect(c) ==
    /\ cl_pc[c] = "connect"
    /\ backlog' = Append(backlog, c)
    /\ cl_link' = [cl_link EXCEPT ![c] = "running"]
    /\ cl_out' = [cl_out EXCEPT ![c] = @ \o Contribution(c)]
    /\ cl_pc' = [cl_pc EXCEPT ![c] = "recv"]
    /\ UNCHANGED <<serviceVars, otherVars, srv_pc, srv_connections, srv_dispatch,
                   srv_joined, app_wire, app_pc, finished_wire, cl_message,
                   cl_result, streamVars>>

\* The client's driver pulls a message from the link's mailbox and writes it.
ClientDriverWrite(c) ==
    /\ cl_link[c] = "running"
    /\ cl_out[c] # <<>>
    /\ c2s' = [c2s EXCEPT ![c] = Append(@, Head(cl_out[c]))]
    /\ cl_out' = [cl_out EXCEPT ![c] = Tail(@)]
    /\ UNCHANGED <<serviceVars, otherVars, srvVars, cl_pc, cl_message, cl_result,
                   cl_link, srv_out, s2c, srv_link>>

\* The client's driver reads a message and hands it downstream: decoded,
\* stripped of the address, pushed into the client's message wire.
ClientDriverRead(c) ==
    /\ cl_link[c] = "running"
    /\ s2c[c] # <<>>
    /\ cl_message' = [cl_message EXCEPT ![c] = Append(@, De(Head(s2c[c])))]
    /\ s2c' = [s2c EXCEPT ![c] = Tail(@)]
    /\ UNCHANGED <<serviceVars, otherVars, srvVars, cl_pc, cl_out, cl_result,
                   cl_link, c2s, srv_out, srv_link>>

\* let message = Drive::from(message).recv().await.unwrap();
\* connection.abort(); message
ClientRecv(c) ==
    /\ cl_pc[c] = "recv"
    /\ cl_message[c] # <<>>
    /\ cl_result' = [cl_result EXCEPT ![c] = Head(cl_message[c])]
    /\ cl_message' = [cl_message EXCEPT ![c] = Tail(@)]
    /\ cl_link' = [cl_link EXCEPT ![c] = "aborted"]
    /\ cl_pc' = [cl_pc EXCEPT ![c] = "returned"]
    /\ UNCHANGED <<serviceVars, otherVars, srvVars, cl_out, streamVars>>

\* One round of the accept loop: accept, dispatch.insert_state, spawn of the
\* driver; after the last round Service::new and the spawn of the app task.
SrvAccept ==
    /\ srv_pc = "accept"
    /\ backlog # <<>>
    /\ LET c == Head(backlog)
       IN  /\ srv_dispatch' = Registered(srv_dispatch, c)
           /\ srv_connections' = Append(srv_connections, c)
           /\ srv_link' = [srv_link EXCEPT ![c] = "running"]
    /\ backlog' = Tail(backlog)
    /\ IF Len(srv_connections) + 1 = count
       THEN /\ ServiceNew(count)
            /\ app_pc' = "running"
            /\ srv_pc' = "finished_recv"
       ELSE /\ UNCHANGED <<count, accumulated, egress, finished, fatal, calls,
                           input, first, handled, app_pc, srv_pc>>
    /\ UNCHANGED <<pool, runs, otherVars, srv_joined, app_wire, finished_wire,
                   clVars, c2s, srv_out, s2c>>

\* A server driver reads a message and hands it downstream: tagged with the
\* link's remote address, decoded, pushed into app_wire.
SrvDriverRead(c) ==
    /\ srv_link[c] = "running"
    /\ c2s[c] # <<>>
    /\ app_wire' = Append(app_wire, <<c, De(Head(c2s[c]))>>)
    /\ c2s' = [c2s EXCEPT ![c] = Tail(@)]
    /\ UNCHANGED <<serviceVars, otherVars, srv_pc, srv_connections, srv_dispatch,
                   srv_joined, backlog, app_pc, finished_wire, clVars, srv_out,
                   s2c, srv_link>>

\* A server driver pulls a message from its link's mailbox and writes it.
SrvDriverWrite(c) ==
    /\ srv_link[c] = "running"
    /\ srv_out[c] # <<>>
    /\ s2c' = [s2c EXCEPT ![c] = Append(@, Head(srv_out[c]))]
    /\ srv_out' = [srv_out EXCEPT ![c] = Tail(@)]
    /\ UNCHANGED <<serviceVars, otherVars, srvVars, clVars, c2s, srv_link>>

\* A server driver's read fails, the client having ended its link and all
\* it wrote having been read: the driver notifies and its task ends.
SrvDriverEnd(c) ==
    /\ srv_link[c] = "running"
    /\ cl_link[c] = "aborted"
    /\ c2s[c] = <<>>
    /\ srv_link' = [srv_link EXCEPT ![c] = "ended"]
    /\ UNCHANGED <<serviceVars, otherVars, srvVars, clVars, c2s, srv_out, s2c>>

\* Drive::from(app_wire).run(app): a message is pulled and the Service is
\* updated with it; its deliveries to egress are routed and its finished
\* signal is pushed.  A panic of the update ends the app task.
AppUpdate ==
    /\ app_pc = "running"
    /\ app_wire # <<>>
    /\ Update(Head(app_wire)[1], Head(app_wire)[2])
    /\ app_wire' = Tail(app_wire)
    /\ LET routed == RouteAll(srv_out,
                              SubSeq(egress', Len(egress) + 1, Len(egress')),
                              srv_dispatch)
       IN  /\ srv_out' = routed.out
           /\ IF fatal' = "none" /\ routed.ok
              THEN /\ app_pc' = app_pc
                   /\ finished_wire' = finished_wire + (finished' - finished)
              ELSE /\ app_pc' = "panicked"
                   /\ finished_wire' = finished_wire
    /\ UNCHANGED <<otherVars, srv_pc, srv_connections, srv_dispatch, srv_joined,
                   backlog, clVars, c2s, s2c, srv_link>>

\* Drive::run returns: app_wire is empty and its push halves, held by the
\* links' drivers, are dropped.  The Service is dropped with the task.
AppEnd ==
    /\ app_pc = "running"
    /\ app_wire = <<>>
    /\ \A i \in 1..Len(srv_connections) : srv_link[srv_connections[i]] = "ended"
    /\ app_pc' = "ended"
    /\ UNCHANGED <<serviceVars, otherVars, srv_pc, srv_connections, srv_dispatch,
                   srv_joined, backlog, app_wire, finished_wire, clVars,
                   streamVars>>

\* Where provide_barrier goes on after the join of j connections.
AfterJoin(j) == IF j = Len(srv_connections) THEN "app_await" ELSE "join"

\* Drive::from(finished).recv().await yields the signal.
SrvRecvFinished ==
    /\ srv_pc = "finished_recv"
    /\ finished_wire > 0
    /\ finished_wire' = finished_wire - 1
    /\ srv_pc' = AfterJoin(srv_joined)
    /\ UNCHANGED <<serviceVars, otherVars, srv_connections, srv_dispatch,
                   srv_joined, backlog, app_wire, app_pc, clVars, streamVars>>

\* Drive::from(finished).recv().await yields None, the Service that held the
\* push half being dropped: unwrap panics.
SrvRecvNone ==
    /\ srv_pc = "finished_recv"
    /\ finished_wire = 0
    /\ app_pc \in {"ended", "panicked"}
    /\ srv_pc' = "panicked"
    /\ UNCHANGED <<serviceVars, otherVars, srv_connections, srv_dispatch,
                   srv_joined, backlog, app_wire, app_pc, finished_wire, clVars,
                   streamVars>>

\* for connection in connections { connection.await.unwrap() }: one round.
SrvJoin ==
    /\ srv_pc = "join"
    /\ srv_link[srv_connections[srv_joined + 1]] = "ended"
    /\ srv_joined' = srv_joined + 1
    /\ srv_pc' = AfterJoin(srv_joined + 1)
    /\ UNCHANGED <<serviceVars, otherVars, srv_connections, srv_dispatch, backlog,
                   app_wire, app_pc, finished_wire, clVars, streamVars>>

\* app.await.unwrap()
SrvAppAwait ==
    /\ srv_pc = "app_await"
    /\ app_pc \in {"ended", "panicked"}
    /\ srv_pc' = IF app_pc = "ended" THEN "returned" ELSE "panicked"
    /\ UNCHANGED <<serviceVars, otherVars, srv_connections, srv_dispatch,
                   srv_joined, backlog, app_wire, app_pc, finished_wire, clVars,
                   streamVars>>

InitBarrier ==
    /\ BarrierInit
    /\ LinkIdle
    /\ LiftIdle
    /\ UdpNew

NextBarrier ==
    \/ \E c \in Clients : ClientConnect(c)
    \/ \E c \in Clients : ClientDriverWrite(c)
    \/ \E c \in Clients : ClientDriverRead(c)
    \/ \E c \in Clients : ClientRecv(c)
    \/ SrvAccept
    \/ \E c \in Clients : SrvDriverRead(c)
    \/ \E c \in Clients : SrvDriverWrite(c)
    \/ \E c \in Clients : SrvDriverEnd(c)
    \/ AppUpdate
    \/ AppEnd
    \/ SrvRecvFinished
    \/ SrvRecvNone
    \/ SrvJoin
    \/ SrvAppAwait

\* One rendezvous: the server and its clients, every task scheduled fairly
\* and no transport fault.
SpecBarrier == InitBarrier /\ [][NextBarrier]_vars /\ WF_vars(NextBarrier)

(***************************************************************************)
(* Claims about the Service                                                *)
(***************************************************************************)

\* The participants that have contributed so far.
Contributors == DOMAIN first

\* The step is a call of update.
IsUpdate == calls' = calls + 1

\* The number of times a value occurs in a sequence.
Occurrences(seq, x) == Cardinality({i \in 1..Len(seq) : seq[i] = x})

\* C1: the broadcast and the finished signal fire at most once over the life of
\* a service, and in exactly the update step in which the number of
\* accumulated contributions becomes equal to count (it never shrinks, so
\* that step is the first); finished is signalled in no other step, and the
\* step delivers count messages to egress and signals finished once.
C1_FiresExactlyWhenCountReached ==
    [][ /\ Size(accumulated') >= Size(accumulated)
        /\ (finished' # finished \/ egress' # egress)
              <=> (IsUpdate /\ Size(accumulated) # count /\ Size(accumulated') = count)
        /\ finished' # finished
              => /\ finished = 0 /\ finished' = 1
                 /\ egress = <<>> /\ Len(egress') = count
      ]_vars

C1_Witness ==
    /\ count >= 2
    /\ finished = 1
    /\ Len(egress) = count
    /\ calls = count

\* C2: while no assertion has failed, the map holds at most count entries, its
\* keys are the participants that contributed, and each key holds the first
\* message that participant contributed.
C2_BoundedFirstContribution ==
    /\ Size(accumulated) <= count
    /\ fatal = "none" =>
          /\ DOMAIN accumulated = Contributors
          /\ \A addr \in DOMAIN accumulated : accumulated[addr] = first[addr]

C2_Witness ==
    /\ fatal = "none"
    /\ count >= 2
    /\ Size(accumulated) = count

\* C3: an update below quorum from a participant that already contributed ends
\* in the failed assertion, with no delivery to egress and no finished signal.
C3_NoDoubleCounting ==
    [][ (/\ IsUpdate
         /\ Size(accumulated) < count
         /\ input'[1] \in DOMAIN accumulated)
        => /\ fatal' # "none"
           /\ egress' = egress
           /\ finished' = finished
           /\ egress' = <<>>
           /\ finished' = 0
      ]_vars

C3_Witness ==
    /\ fatal = "prev_is_none"
    /\ Size(accumulated) < count
    /\ calls >= 2
    /\ input[1] \in DOMAIN first
    /\ input[2] # first[input[1]]

\* C4: an update received when the map already holds count entries ends in
\* the failed assertion: nothing is inserted, nothing more is delivered to
\* egress and finished is not signalled again.
C4_NoOverflow ==
    [][ (IsUpdate /\ Size(accumulated) = count)
        => /\ fatal' = "len_below_count"
           /\ accumulated' = accumulated
           /\ egress' = egress
           /\ finished' = finished
      ]_vars

C4_Witness ==
    /\ fatal = "len_below_count"
    /\ count >= 1
    /\ finished = 1
    /\ Len(egress) = count
    /\ calls = count + 1

\* C5: once the quorum is reached, egress has been updated exactly once per
\* participant that contributed and for no other address, every delivery
\* carries the same aggregate, and the aggregate has count pairs: one
\* (message, IP) pair per entry of the map, participants on one IP with
\* different ports giving a pair each.
C5_BroadcastOfOneAggregate ==
    finished >= 1 =>
        /\ Len(egress) = count
        /\ \A i \in 1..Len(egress) : egress[i][1] \in DOMAIN accumulated
        /\ \A addr \in DOMAIN accumulated :
              Cardinality({i \in 1..Len(egress) : egress[i][1] = addr}) = 1
        /\ \A i, j \in 1..Len(egress) : egress[i][2] = egress[j][2]
        /\ \A i \in 1..Len(egress) :
              /\ Len(egress[i][2]) = count
              /\ \A pair \in Msgs \X Ips :
                    Occurrences(egress[i][2], pair) =
                       Cardinality({addr \in DOMAIN accumulated :
                                       /\ accumulated[addr] = pair[1]
                                       /\ addr[1] = pair[2]})

C5_Witness ==
    /\ finished = 1
    /\ count >= 2
    /\ \E a, b \in DOMAIN accumulated : a # b /\ a[1] = b[1]
    /\ \E a, b \in DOMAIN accumulated : a[1] # b[1]

\* The service has completed and broadcast its aggregate.
Completed == egress # <<>>

\* The pairs two aggregates hold are the same, each as many times.
SameContent(a, b) ==
    /\ Len(a) = Len(b)
    /\ \A pair \in Msgs \X Ips : Occurrences(a, pair) = Occurrences(b, pair)

\* C6, as claimed: two services given the same contributions deliver equal
\* aggregates, whatever the arrival order.
C6_EqualAggregates ==
    \A r \in runs :
        (Completed /\ r.accumulated = accumulated) => r.aggregate = egress[1][2]

\* C6, amended: two services given the same contributions deliver aggregates
\* of the same content (the same pairs, each as many times), whatever the
\* arrival order; the order of the pairs in the aggregate may differ.
C6_EqualContent ==
    \A r \in runs :
        (Completed /\ r.accumulated = accumulated)
            => SameContent(r.aggregate, egress[1][2])

C6_Witness ==
    /\ count >= 2
    /\ Completed
    /\ \E r \in runs :
          /\ r.accumulated = accumulated
          /\ r.calls = count /\ calls = count
          /\ r.input[1] # input[1]

\* C7: while fewer than count distinct participants have contributed, nothing
\* has been delivered to egress and finished has not been signalled; and
\* egress and finished change in no step but an update that brings the number
\* of distinct contributors to count.
C7_CollectingUntilQuorum ==
    /\ [](Cardinality(Contributors) < count
             => egress = <<>> /\ finished = 0)
    /\ [][ (egress' # egress \/ finished' # finished)
             => /\ IsUpdate
                /\ Cardinality(Contributors) < count
                /\ Cardinality(Contributors') = count
         ]_vars

C7_Witness ==
    /\ count >= 2
    /\ Cardinality(Contributors) = count - 1
    /\ fatal = "none"
    /\ egress = <<>>
    /\ finished = 0

(***************************************************************************)
(* Claims about the link driver                                            *)
(***************************************************************************)

\* C8: a failed stream operation (read_u32, read_exact, write_u32, write_all
\* or flush) ends the loop and, in the same step, the notifier is updated once
\* with the link's remote address and start returns; the notifier is never
\* updated while the loop runs, the loop ends in no other way than a failure,
\* and once start has returned the driver does nothing more.
C8_DisconnectExactlyOnce ==
    /\ [](disconnected = IF pc = "done" THEN <<remote_addr>> ELSE <<>>)
    /\ []((failed # "none") <=> (pc = "done"))
    /\ [][ failed' # failed
             => /\ failed = "none"
                /\ pc \notin {"done", "panicked"}
                /\ pc' = "done"
                /\ disconnected' = <<remote_addr>>
         ]_vars
    /\ [][ pc = "done" => UNCHANGED driverVars ]_vars

C8_Witness ==
    /\ pc = "done"
    /\ stream_status = "eof"
    /\ failed = "read_u32"
    /\ state # <<>>
    /\ disconnected = <<remote_addr>>

\* C9: the messages delivered to the downstream state are the messages the
\* peer sent, whole and unmodified and tagged with the peer's address: the
\* i-th delivery is (remote_addr, the i-th message sent).
C9_FramingIntegrity ==
    \A i \in 1..Len(state) :
        /\ i <= Len(sent)
        /\ state[i] = <<remote_addr, sent[i]>>

\* The frames of a sequence of messages, one after another.
RECURSIVE Frames(_)
Frames(messages) ==
    IF messages = <<>> THEN <<>>
    ELSE Frame(Head(messages)) \o Frames(Tail(messages))

IsPrefix(a, b) == Len(a) <= Len(b) /\ a = SubSeq(b, 1, Len(a))

\* a is b with some of its elements left out.
RECURSIVE IsSubsequence(_, _)
IsSubsequence(a, b) ==
    IF a = <<>> THEN TRUE
    ELSE IF b = <<>> THEN FALSE
    ELSE IF Head(a) = Head(b) THEN IsSubsequence(Tail(a), Tail(b))
    ELSE IsSubsequence(a, Tail(b))

\* The bytes written to the stream are the frames of the messages pushed into
\* the mailbox, in the order they were pushed.
OutboundInOrder == IsPrefix(stream_tx, Frames(pushed))

\* The messages delivered to the downstream state are messages of the stream,
\* in the order of the stream, none twice.
InboundInOrder ==
    IsSubsequence([i \in 1..Len(state) |-> state[i][2]], sent)

\* C10: while the link is not disconnected, the frames written appear in the
\* order the messages were pushed, and the inbound frames are delivered in
\* the order they appear on the stream, none duplicated or reordered.
C10_OrderPreserved ==
    failed = "none" => OutboundInOrder /\ InboundInOrder

\* The bytes of the stream held by the read the driver is suspended in: the
\* length bytes of a pending read_u32, or a length and the part of its payload
\* read_exact has read.
InProgress ==
    IF pc = "read_exact" THEN U32Bytes(len) \o buf ELSE read_u32

\* No byte of the stream is lost: the frames the peer wrote are the frames
\* delivered, then the bytes of the read in progress, then the unread bytes.
StreamAccounted ==
    Frames(sent) =
        Frames([i \in 1..Len(state) |-> state[i][2]]) \o InProgress
            \o stream_rx

\* Once the mailbox has yielded end-of-stream the driver neither exits nor
\* notifies because of it, never receives from the mailbox or writes again,
\* and leaves the loop only through a failed read.
LocalCloseQuiet ==
    /\ [][ ~local_close /\ local_close'
             => /\ drive = <<>> /\ drive_closed
                /\ pc' = "select"
                /\ disconnected' = <<>>
                /\ failed' = "none"
         ]_vars
    /\ [][ local_close
             => /\ local_close'
                /\ drive' = drive
                /\ stream_tx' = stream_tx
                /\ pc' \notin {"write_u32", "write_all", "flush"}
         ]_vars
    /\ [](local_close /\ pc = "done" => failed \in {"read_u32", "read_exact"})

\* C11: when the mailbox yields end-of-stream the driver goes on (it does not
\* return and does not update the notifier), from then on it never receives
\* from the mailbox or writes to the stream, and it keeps reading the inbound
\* frames and delivering them until a read fails: from the step that sets
\* local_close on, no byte of the stream is lost unless a read has failed.
C11_LocalHalfClose ==
    /\ LocalCloseQuiet
    /\ [][ local_close' /\ StreamAccounted /\ pc' # "done"
             => StreamAccounted' ]_vars

\* C19: whatever length a frame's prefix announces, the driver delivers
\* exactly that many bytes of payload or ends through the notifier: buf[..len]
\* is never sliced beyond the BufSize bytes of buf, a delivered message has
\* the announced length, and a driver that no longer runs has updated the
\* notifier with the link's remote address.
C19_AnnouncedLengthHandled ==
    /\ [](pc = "read_exact" => len <= BufSize)
    /\ [](~Running => pc = "done" /\ disconnected = <<remote_addr>>)
    /\ [][ state' # state
             => /\ Len(state') = Len(state) + 1
                /\ Len(state'[Len(state')][2]) = len
         ]_vars

(***************************************************************************)
(* Further claims about the Service                                        *)
(***************************************************************************)

\* The participants egress was updated for before the i-th handler call.
EgressBefore(i) ==
    {handled[j][2] : j \in {k \in 1..(i - 1) : handled[k][1] = "egress"}}

\* C17: in the update that reaches the quorum every delivery of the aggregate
\* to egress is made before finished is signalled: each call of finished is
\* preceded by count calls of egress, one for every participant of the map,
\* and no call of egress follows it.
C17_EgressBeforeFinished ==
    \A i \in 1..Len(handled) :
        handled[i] = <<"finished">>
            => /\ i = count + 1
               /\ i = Len(handled)
               /\ \A j \in 1..(i - 1) : handled[j][1] = "egress"
               /\ EgressBefore(i) = DOMAIN accumulated
               /\ Cardinality(EgressBefore(i)) = count
               /\ Len(egress) = count

C17_Witness ==
    /\ count = MaxCount
    /\ finished = 1
    /\ Len(handled) = count + 1
    /\ handled[Len(handled)] = <<"finished">>

\* C20: a Service constructed with count = 0 never updates egress and never
\* signals finished: nothing is called at construction, and its first update
\* fails assert!(accumulated.len() < count) with nothing inserted, after
\* which it is not updated again.  No finished signal therefore exists for
\* the server procedure to receive.
C20_ZeroCountNeverFires ==
    count = 0
        => /\ egress = <<>>
           /\ finished = 0
           /\ handled = <<>>
           /\ accumulated = <<>>
           /\ calls <= 1
           /\ (calls = 1) <=> (fatal = "len_below_count")
           /\ fatal \in {"none", "len_below_count"}

C20_Witness ==
    /\ count = 0
    /\ calls = 1
    /\ input # <<>>
    /\ fatal = "len_below_count"
    /\ accumulated = <<>>
    /\ finished = 0

(***************************************************************************)
(* Claims about the lifts                                                  *)
(***************************************************************************)

\* The payload of a wrapped message, as a sequence: empty when it has none.
PayloadOf(l, message) ==
    CASE l = "OptionLift" ->
            IF message[1] = "None" THEN <<>> ELSE <<message[2]>>
      [] l = "TimeoutLift" -> <<message[2]>>
      [] l = "TransportLift" -> <<message[2]>>
      [] l = "RouteLift" ->
            IF message[1] = "To" THEN <<message[3]>> ELSE <<message[2]>>

\* C15: OptionLift given None leaves the inner state as it was (it is not
\* updated) and returns None; given Some(m) it updates the inner state
\* exactly once, with m, and returns Some of what that update returned.
C15_OptionShortCircuit ==
    [][ lift' = "OptionLift"
          => IF lift_message' = <<"None">>
             THEN /\ inner_calls' = inner_calls
                  /\ lift_out' = <<"None">>
             ELSE /\ inner_calls' = Append(inner_calls, lift_message'[2])
                  /\ lift_out' =
                        <<"Some", IF inner_fn = "identity" THEN lift_message'[2]
                                  ELSE lift_message'[2] + Len(inner_calls) + 1>>
      ]_vars

C15_Witness ==
    /\ lift = "OptionLift"
    /\ lift_message = <<"None">>
    /\ lift_out = <<"None">>
    /\ inner_fn = "offset"
    /\ Len(inner_calls) = 1

\* C16: with an inner state whose update returns its message, every lift
\* returns a wrapper equal to the one it was given (same variant, same address
\* or destination), and the inner state is updated exactly once with the
\* payload when the wrapper holds one, and not at all otherwise.
C16_EnvelopeRoundTrip ==
    [][ lift' \in Lifts /\ inner_fn = "identity"
          => /\ lift_out' = lift_message'
             /\ inner_calls' = inner_calls \o PayloadOf(lift', lift_message')
      ]_vars

C16_Witness ==
    /\ inner_fn = "identity"
    /\ lift = "RouteLift"
    /\ lift_message \in {<<"To", dest, 5>> : dest \in Keys}
    /\ lift_out = lift_message
    /\ Len(inner_calls) = 2
    /\ inner_calls[1] = 1

(***************************************************************************)
(* Claims about the datagram port                                          *)
(***************************************************************************)

\* The number of datagrams recv_from has returned.
UdpReceived == Len(udp_arrived) - Len(udp_socket)

\* C14: the datagrams handed to the downstream state are the datagrams
\* received, each once, in the order received, as (sender, exactly the bytes
\* of its payload); while state.update runs for the k-th datagram no other
\* has been received and buf[..len] holds the k-th payload, and recv_from is
\* only called again once that call has returned.
C14_DatagramsInOrder ==
    /\ [](udp_state = SubSeq(udp_arrived, 1, Len(udp_state)))
    /\ [](UdpReceived = Len(udp_state) + (IF udp_pc = "update" THEN 1 ELSE 0))
    /\ [](udp_pc = "update"
            => <<udp_remote, SubSeq(udp_buf, 1, udp_len)>>
                  = udp_arrived[UdpReceived])
    /\ [][ UdpReceived' # UdpReceived
             => /\ udp_pc = "recv"
                /\ Len(udp_state) = UdpReceived
                /\ UdpReceived' = UdpReceived + 1
         ]_vars
    /\ [][ udp_pc = "update" => udp_buf' = udp_buf ]_vars

C14_Witness ==
    /\ Len(udp_state) = 2
    /\ udp_state[1][2] = <<104, 105>>
    /\ udp_state[2][2] = <<104>>
    /\ udp_state[1][1] # udp_state[2][1]
    /\ udp_pc = "recv"

(***************************************************************************)
(* Claims about the rendezvous procedures                                  *)
(***************************************************************************)

\* The contributions of client c that exist: in its mailbox, on its stream,
\* in app_wire, or given to the Service.
Contributed(c) ==
    Len(cl_out[c]) + Len(c2s[c])
        + Cardinality({i \in 1..Len(app_wire) : app_wire[i][1] = c})
        + (IF c \in Contributors THEN 1 ELSE 0)

\* The links accepted.
Accepted == {srv_connections[i] : i \in 1..Len(srv_connections)}

\* C12: a client sends exactly one contribution; it returns only once the
\* Service has reached the quorum and broadcast, with the aggregate the
\* Service delivered for it; it ends its link only after it has the
\* aggregate; while the quorum is not reached no client returns; the clients
\* that return hold the same aggregate; and, every task being scheduled
\* fairly and no link failing, every client eventually returns.
C12_ClientRendezvous ==
    /\ [](\A c \in Clients :
            Contributed(c) = IF cl_pc[c] = "connect" THEN 0 ELSE 1)
    /\ [](\A c \in Clients :
            cl_pc[c] = "returned"
                => /\ finished = 1
                   /\ \E i \in 1..Len(egress) : egress[i] = <<c, cl_result[c]>>)
    /\ [](\A c \in Clients :
            cl_link[c] = "aborted"
                => cl_pc[c] = "returned" /\ Len(cl_result[c]) = count)
    /\ [](finished = 0 => \A c \in Clients : cl_pc[c] # "returned")
    /\ [](\A c, d \in Clients :
            cl_pc[c] = "returned" /\ cl_pc[d] = "returned"
                => cl_result[c] = cl_result[d])
    /\ <>(\A c \in Clients : cl_pc[c] = "returned")

C12_Witness ==
    /\ count = MaxClients
    /\ \A c \in Clients : cl_pc[c] = "returned" /\ cl_link[c] = "aborted"
    /\ \A c \in Clients : cl_result[c] = egress[1][2]
    /\ \E c, d \in Clients : Payload(c) # Payload(d)

\* What the server procedure does in every run: it accepts at most count
\* links and leaves the accept loop with exactly count, only accepted links
\* feed the one Service, and it returns only after the finished signal was
\* received, every accepted link's driver has ended, every accepted link's
\* contribution was given to the Service and the app task has ended.
ServerOrder ==
    /\ [](Len(srv_connections) <= count)
    /\ [](srv_pc # "accept" => Len(srv_connections) = count)
    /\ [](Contributors \subseteq Accepted)
    /\ [](srv_pc \in {"join", "app_await", "returned"}
            => finished = 1 /\ finished_wire = 0)
    /\ [](srv_pc = "returned"
            => /\ \A c \in Accepted : srv_link[c] = "ended"
               /\ DOMAIN accumulated = Accepted
               /\ srv_joined = count
               /\ app_pc = "ended")

\* C13, as stated: ServerOrder, and if the count clients connect, contribute
\* once and end their links after receiving the aggregate, the server
\* procedure eventually returns: it does not end in another way, and it
\* reaches its return.
C13_ServerReturns ==
    /\ ServerOrder
    /\ [](srv_pc # "panicked")
    /\ <>(srv_pc = "returned")

\* C13, amended: the same for a count of at least one.
C13_ServerReturnsForQuorum ==
    /\ ServerOrder
    /\ [](count >= 1 => srv_pc # "panicked")
    /\ (count >= 1 => <>(srv_pc = "returned"))

C13_Witness ==
    /\ count = MaxClients
    /\ srv_pc = "returned"
    /\ srv_joined = count
    /\ \A c \in Clients : srv_link[c] = "ended"

\* C18: the keys of accumulated, and so the addresses the aggregate is
\* broadcast to, are among the addresses registered in the router during
\* accept, and the broadcast never fails on an address without an entry.
C18_BroadcastRouted ==
    /\ srv_dispatch = Accepted
    /\ DOMAIN accumulated \subseteq srv_dispatch
    /\ \A i \in 1..Len(egress) : egress[i][1] \in srv_dispatch
    /\ app_pc # "panicked"

C18_Witness ==
    /\ count = MaxClients
    /\ Len(egress) = count
    /\ DOMAIN accumulated = srv_dispatch
    /\ \A c \in Clients : Len(srv_out[c]) = 1

\* With count = 0 no finished signal reaches the server procedure: it never
\* gets past Drive::from(finished).recv().
ZeroCountServerNeverSignalled ==
    count = 0
        => /\ finished_wire = 0
           /\ finished = 0
           /\ srv_pc \in {"finished_recv", "panicked"}

=============================================================================
